---------------------------- MODULE Spec2Model ----------------------------
(***************************************************************************)
(* Langton's ant / turmite: the pattern table (parse, first, next), the    *)
(* heading rotations and the per-tick step of the two engines of the       *)
(* repository: src/main.rs (two commands, paint - turn - move) and         *)
(* src/hex.rs (four commands, move with the pending command - paint).      *)
(*                                                                         *)
(* Abstractions: a Color (random f32 channels) is a marker id in Markers;  *)
(* a pattern String is a sequence of one-character strings over Chars;     *)
(* translations are kept in pixels, multiples of ANT_SPEED (exact in f32). *)
(***************************************************************************)
EXTENDS Integers, Sequences, FiniteSets, TLC

\* ------------------------------------------------------------------ bounds
\* Longest pattern string fed to parse.
MaxLen == 3
\* Number of distinct colors the random generator can produce.
NumMarkers == 3
\* Number of FixedUpdate ticks explored.
MaxTicks == 9

\* ------------------------------------------------------------- constants
ANT_SPEED == 20

Markers == 1..NumMarkers
\* Characters a pattern string is made of: the alphabet in both cases and one
\* character outside it.
Chars == {"r", "l", "u", "n", "R", "L", "U", "N", "x"}
Inputs == UNION {[1..n -> Chars] : n \in 0..MaxLen}

VARIABLES
    config,     \* "main": src/main.rs; "hex": the AntPlugin of src/hex.rs
    pc,         \* "start" | "running" | "rejected" | "panicked"
    input,      \* the pattern String given on the command line / to the plugin
    pattern,    \* Res<Pattern> / Res<AntPattern>: [colors, turns]
    appState,   \* State<AppState>
    nextState,  \* NextState<AppState>: "None" or the pending state
    tiles,      \* the Tile / Brick entities, in spawn order: [x, y, color]
    ant,        \* the ant entity: [dir, x, y, pd]
    ticks,      \* number of ticks executed (history)
    writes,     \* every (x, y, color) written to a tile so far (history)
    last,       \* what the last tick looked up and did (history)
    tiles2, ant2, ticks2, writes2,  \* a second run on the same input
    pattern2    \* the table of the second run when it is the plugin of hex.rs

vars == <<config, pc, input, pattern, appState, nextState, tiles, ant, ticks,
          writes, last, tiles2, ant2, ticks2, writes2, pattern2>>

\* ---------------------------------------------------------------- parsing
\* String::to_lowercase on one character.
to_lowercase(c) ==
    CASE c = "R" -> "r"
      [] c = "L" -> "l"
      [] c = "U" -> "u"
      [] c = "N" -> "n"
      [] OTHER -> c

EmptyPattern == [colors |-> <<>>, turns |-> <<>>]

Push(s, color, turn) ==
    [colors |-> Append(s.colors, color), turns |-> Append(s.turns, turn)]

\* main.rs Pattern::parse_pattern: one random color is drawn for every
\* character (rng[i] for the i-th), and pushed only for 'r' and 'l'.
RECURSIVE Pattern_parse_pattern(_, _, _)
Pattern_parse_pattern(s, pat, rng) ==
    IF pat = <<>> THEN s
    ELSE LET p == to_lowercase(Head(pat))
             color == Head(rng)
             s1 == CASE p = "r" -> Push(s, color, "Right")
                     [] p = "l" -> Push(s, color, "Left")
                     [] OTHER -> s
         IN Pattern_parse_pattern(s1, Tail(pat), Tail(rng))

\* Pattern::parse with the length check off by one: a single entry passes.
Pattern_parse_min1(pat, rng) ==
    LET s == Pattern_parse_pattern(EmptyPattern, pat, rng)
    IN IF Len(s.colors) < 1
       THEN [ok |-> FALSE, pattern |-> EmptyPattern]
       ELSE [ok |-> TRUE, pattern |-> s]

\* main.rs Pattern::parse: bail! when fewer than 2 entries were produced.
Pattern_parse(pat, rng) ==
    LET s == Pattern_parse_pattern(EmptyPattern, pat, rng)
    IN IF Len(s.colors) < 2
       THEN [ok |-> FALSE, pattern |-> EmptyPattern]
       ELSE [ok |-> TRUE, pattern |-> s]

\* hex.rs AntPattern::parse, the loop over the characters.
RECURSIVE AntPattern_parse_loop(_, _, _)
AntPattern_parse_loop(s, pat, rng) ==
    IF pat = <<>> THEN s
    ELSE LET p == to_lowercase(Head(pat))
             color == Head(rng)
             s1 == CASE p = "r" -> Push(s, color, "R1")
                     [] p = "l" -> Push(s, color, "L1")
                     [] p = "u" -> Push(s, color, "Uturn")
                     [] p = "n" -> Push(s, color, "None")
                     [] OTHER -> s
         IN AntPattern_parse_loop(s1, Tail(pat), Tail(rng))

\* A parse whose 'r' arm pushes PatternDirection::R2.
AntPattern_parse_r2(pat, rng) ==
    LET s == AntPattern_parse_loop(EmptyPattern, pat, rng)
        t == [s EXCEPT !.turns = [i \in 1..Len(s.turns) |->
                                    IF s.turns[i] = "R1" THEN "R2" ELSE s.turns[i]]]
    IN IF Len(t.colors) < 2
       THEN [ok |-> FALSE, pattern |-> EmptyPattern]
       ELSE [ok |-> TRUE, pattern |-> t]

\* hex.rs AntPattern::parse.
AntPattern_parse(pat, rng) ==
    LET s == AntPattern_parse_loop(EmptyPattern, pat, rng)
    IN IF Len(s.colors) < 2
       THEN [ok |-> FALSE, pattern |-> EmptyPattern]
       ELSE [ok |-> TRUE, pattern |-> s]

\* ------------------------------------------------------ first and next
\* first without the offset: the color at index 0.
Pattern_first_index0(p) == [color |-> p.colors[1], turn |-> p.turns[1]]

\* Pattern::first / AntPattern::first (the two are the same text):
\* colors.get(1) and turns.first(), 0-based; sequences here are 1-based.
Pattern_first(p) == [color |-> p.colors[2], turn |-> p.turns[1]]

\* itertools tuple_windows, which does not wrap: one window fewer.
tuple_windows(colors) ==
    [i \in 1..(Len(colors) - 1) |-> <<colors[i], colors[i + 1]>>]

\* itertools circular_tuple_windows::<(&Color, &Color)>(): one window per
\* element, the last one wrapping to the first.
circular_tuple_windows(colors) ==
    [i \in 1..Len(colors) |-> <<colors[i], colors[(i % Len(colors)) + 1]>>]

\* zip against turns.iter().skip(1): one item fewer, turns shifted by one.
zip_skip_first(a, b) ==
    [i \in 1..(IF Len(a) < Len(b) - 1 THEN Len(a) ELSE Len(b) - 1) |->
        <<a[i], b[i + 1]>>]

\* Iterator::zip: as long as the shorter of the two.
zip(a, b) ==
    [i \in 1..(IF Len(a) < Len(b) THEN Len(a) ELSE Len(b)) |-> <<a[i], b[i]>>]

\* The loop without its early return: the last matching window wins.
RECURSIVE next_loop_last_match(_, _, _)
next_loop_last_match(items, current, i) ==
    IF i > Len(items) THEN [found |-> FALSE, color |-> 0, turn |-> "None"]
    ELSE LET rest == next_loop_last_match(items, current, i + 1)
         IN IF rest.found THEN rest
            ELSE IF items[i][1][1] = current
                 THEN [found |-> TRUE, color |-> items[i][1][2],
                       turn |-> items[i][2]]
                 ELSE rest

\* The for loop of Pattern::next / AntPattern::next from item i on: the first
\* window whose first color equals current; running off the end is the panic.
RECURSIVE next_loop(_, _, _)
next_loop(items, current, i) ==
    IF i > Len(items) THEN [found |-> FALSE, color |-> 0, turn |-> "None"]
    ELSE IF items[i][1][1] = current
         THEN [found |-> TRUE, color |-> items[i][1][2], turn |-> items[i][2]]
         ELSE next_loop(items, current, i + 1)

\* A lookup that returns the window's own color: the tile keeps its marker.
Pattern_next_same_color(p, current) ==
    LET r == next_loop(zip(circular_tuple_windows(p.colors), p.turns), current, 1)
    IN [r EXCEPT !.color = IF r.found THEN current ELSE 0]

\* Pattern::next / AntPattern::next.
Pattern_next(p, current) ==
    next_loop(zip(circular_tuple_windows(p.colors), p.turns), current, 1)

\* ------------------------------------------------------------ headings
\* main.rs run_rotation, match next_turn { Turn::Left => match ant.0 ... }.
turn_left(dir) ==
    CASE dir = "North" -> "West"
      [] dir = "South" -> "East"
      [] dir = "West" -> "South"
      [] dir = "East" -> "North"

\* main.rs run_rotation, match next_turn { Turn::Right => match ant.0 ... }.
turn_right(dir) ==
    CASE dir = "North" -> "East"
      [] dir = "South" -> "West"
      [] dir = "West" -> "North"
      [] dir = "East" -> "South"

\* main.rs run_rotation, match next_turn.
apply_turn(dir, next_turn) ==
    CASE next_turn = "Left" -> turn_left(dir)
      [] next_turn = "Right" -> turn_right(dir)

\* rotate_left with the Down arm sending the ant Left instead of Right.
rotate_left_down_left(dir) ==
    CASE dir = "Up" -> "Left"
      [] dir = "Left" -> "Down"
      [] dir = "Down" -> "Left"
      [] dir = "Right" -> "Up"

\* hex.rs AntDirection::rotate_left.
rotate_left(dir) ==
    CASE dir = "Up" -> "Left"
      [] dir = "Left" -> "Down"
      [] dir = "Down" -> "Right"
      [] dir = "Right" -> "Up"

\* hex.rs AntDirection::rotate_right.
rotate_right(dir) ==
    CASE dir = "Up" -> "Right"
      [] dir = "Left" -> "Up"
      [] dir = "Down" -> "Left"
      [] dir = "Right" -> "Down"

\* rotate_back with the Right arm left pointing Right.
rotate_back_right_stays(dir) ==
    CASE dir = "Up" -> "Down"
      [] dir = "Left" -> "Right"
      [] dir = "Down" -> "Up"
      [] dir = "Right" -> "Right"

\* hex.rs AntDirection::rotate_back.
rotate_back(dir) ==
    CASE dir = "Up" -> "Down"
      [] dir = "Left" -> "Right"
      [] dir = "Down" -> "Up"
      [] dir = "Right" -> "Left"

\* main.rs run_rotation, match ant.0 { ... translation += / -= ANT_SPEED }.
advance(a) ==
    CASE a.dir = "North" -> [a EXCEPT !.y = @ + ANT_SPEED]
      [] a.dir = "South" -> [a EXCEPT !.y = @ - ANT_SPEED]
      [] a.dir = "West" -> [a EXCEPT !.x = @ - ANT_SPEED]
      [] a.dir = "East" -> [a EXCEPT !.x = @ + ANT_SPEED]

\* The two vertical arms exchanged: Up moves down and Down moves up.
hex_advance_up_is_down(a) ==
    CASE a.dir = "Up" -> [a EXCEPT !.y = @ - ANT_SPEED]
      [] a.dir = "Down" -> [a EXCEPT !.y = @ + ANT_SPEED]
      [] a.dir = "Left" -> [a EXCEPT !.x = @ - ANT_SPEED]
      [] a.dir = "Right" -> [a EXCEPT !.x = @ + ANT_SPEED]

\* hex.rs ant_movement, match *ant_direction { ... }.
hex_advance(a) ==
    CASE a.dir = "Up" -> [a EXCEPT !.y = @ + ANT_SPEED]
      [] a.dir = "Down" -> [a EXCEPT !.y = @ - ANT_SPEED]
      [] a.dir = "Left" -> [a EXCEPT !.x = @ - ANT_SPEED]
      [] a.dir = "Right" -> [a EXCEPT !.x = @ + ANT_SPEED]

\* The two halves in the other order: move along the old heading, then rotate.
move_then_turn(a, next_turn) ==
    [advance(a) EXCEPT !.dir = apply_turn(a.dir, next_turn)]

\* main.rs run_rotation, lines 206-232: rotate by next_turn, then move along
\* the new heading.
turn_and_move(a, next_turn) ==
    advance([a EXCEPT !.dir = apply_turn(a.dir, next_turn)])

\* ----------------------------------------------------------- tile scans
\* A comparison of the x translation alone.
Matching_x_only(ts, a) == {i \in 1..Len(ts) : ts[i].x = a.x}

\* The tiles whose translation equals the ant's.
Matching(ts, a) == {i \in 1..Len(ts) : ts[i].x = a.x /\ ts[i].y = a.y}

\* The orders in which a query can yield the tiles of S (the iteration order
\* of a Bevy query is not part of its contract).
Orders(S) ==
    {f \in [1..Cardinality(S) -> S] :
        \A i, j \in 1..Cardinality(S) : i # j => f[i] # f[j]}

\* The new color written to a copy: the tile keeps its color.
keep_color(ts, i, color) == ts

\* The matched tile removed instead of recolored.
remove_tile(ts, i, color) == SubSeq(ts, 1, i - 1) \o SubSeq(ts, i + 1, Len(ts))

\* Overwriting the color of tile i (current_color.color = ... /
\* brick_sprite.color = ...).
set_color(ts, i, color) == [ts EXCEPT ![i].color = color]

\* A tick that spawns a tile whether or not one matched.
always_spawn(flip_color) == TRUE

\* Whether the tick spawns a tile: if !flip_color.
must_spawn(flip_color) == ~flip_color

\* The for loop over tile_query / brick_query, restricted to the matching
\* tiles in the order the query yields them (the body does nothing for the
\* others): each one is advanced by pattern.next, the loop has no break.
RECURSIVE tile_loop(_, _, _)
tile_loop(p, order, acc) ==
    IF order = <<>> \/ acc.panicked THEN acc
    ELSE LET i == Head(order)
             t == acc.tiles[i]
             r == Pattern_next(p, t.color)
         IN IF ~r.found
            THEN [acc EXCEPT !.panicked = TRUE]
            ELSE tile_loop(p, Tail(order),
                    [acc EXCEPT !.tiles = set_color(@, i, r.color),
                                !.flip_color = TRUE,
                                !.next_turn = r.turn,
                                !.old = t.color,
                                !.writes = Append(@, <<t.x, t.y, r.color>>)])

\* main.rs run_rotation. order: the matching tiles as the query yields them.
run_rotation(p, ts, a, order) ==
    LET acc0 == [tiles |-> ts, flip_color |-> FALSE, next_turn |-> "Left",
                 old |-> 0, writes |-> <<>>, panicked |-> FALSE]
        acc == tile_loop(p, order, acc0)
        f == Pattern_first(p)
        spawn == must_spawn(acc.flip_color)
        next_turn == IF spawn THEN f.turn ELSE acc.next_turn
    IN IF acc.panicked
       THEN [panicked |-> TRUE, tiles |-> ts, ant |-> a, writes |-> <<>>,
             branch |-> "next", old |-> 0, turn |-> "Left"]
       ELSE [panicked |-> FALSE,
             tiles |-> IF spawn
                       THEN Append(acc.tiles, [x |-> a.x, y |-> a.y, color |-> f.color])
                       ELSE acc.tiles,
             ant |-> turn_and_move(a, next_turn),
             writes |-> IF spawn
                        THEN Append(acc.writes, <<a.x, a.y, f.color>>)
                        ELSE acc.writes,
             branch |-> IF acc.flip_color THEN "next" ELSE "first",
             old |-> acc.old,
             turn |-> next_turn]

\* hex.rs ant_movement: rotate by the pending command, then move; R2 and L2
\* reach todo!().
ant_movement(a) ==
    CASE a.pd = "R1" -> [panicked |-> FALSE, ant |-> hex_advance([a EXCEPT !.dir = rotate_right(a.dir)])]
      [] a.pd = "L1" -> [panicked |-> FALSE, ant |-> hex_advance([a EXCEPT !.dir = rotate_left(a.dir)])]
      [] a.pd = "Uturn" -> [panicked |-> FALSE, ant |-> hex_advance([a EXCEPT !.dir = rotate_back(a.dir)])]
      [] a.pd = "None" -> [panicked |-> FALSE, ant |-> hex_advance(a)]
      [] OTHER -> [panicked |-> TRUE, ant |-> a]

\* hex.rs bricks_rotation. order: the matching bricks as the query yields them.
bricks_rotation(p, ts, a, order) ==
    LET acc0 == [tiles |-> ts, flip_color |-> FALSE, next_turn |-> a.pd,
                 old |-> 0, writes |-> <<>>, panicked |-> FALSE]
        acc == tile_loop(p, order, acc0)
        f == Pattern_first(p)
        spawn == must_spawn(acc.flip_color)
        direction == IF spawn THEN f.turn ELSE acc.next_turn
    IN IF acc.panicked
       THEN [panicked |-> TRUE, tiles |-> ts, ant |-> a, writes |-> <<>>,
             branch |-> "next", old |-> 0, turn |-> a.pd]
       ELSE [panicked |-> FALSE,
             tiles |-> IF spawn
                       THEN Append(acc.tiles, [x |-> a.x, y |-> a.y, color |-> f.color])
                       ELSE acc.tiles,
             ant |-> [a EXCEPT !.pd = direction],
             writes |-> IF spawn
                        THEN Append(acc.writes, <<a.x, a.y, f.color>>)
                        ELSE acc.writes,
             branch |-> IF acc.flip_color THEN "next" ELSE "first",
             old |-> acc.old,
             turn |-> direction]

\* ----------------------------------------------------------- the program
\* No ant entity exists before the Startup schedule has run setup.
NoAnt == [dir |-> "Unspawned", x |-> 0, y |-> 0]

NoLast == [branch |-> "none", from |-> NoAnt, old |-> 0, color |-> 0,
           turn |-> "None", applied |-> "None", n |-> 0]

Init ==
    /\ config \in {"main", "hex"}
    /\ pc = "start"
    /\ input \in Inputs
    /\ pattern = EmptyPattern
    /\ appState = "Running"
    /\ nextState = "None"
    /\ tiles = <<>>
    /\ ant = NoAnt
    /\ ticks = 0
    /\ writes = <<>>
    /\ last = NoLast
    /\ tiles2 = <<>>
    /\ ant2 = NoAnt
    /\ ticks2 = 0
    /\ writes2 = <<>>
    /\ pattern2 = EmptyPattern

\* main going on to build the application whatever parse returned (the ?
\* dropped).
Parse_unchecked ==
    /\ pc = "start"
    /\ \E rng \in [1..Len(input) -> Markers] :
         LET r == IF config = "main"
                  THEN Pattern_parse(input, rng)
                  ELSE AntPattern_parse(input, rng)
         IN /\ pc' = "parsed"
            /\ pattern' = r.pattern
    /\ input' = <<>>
    /\ UNCHANGED <<config, appState, nextState, tiles, ant, ticks, writes, last,
                   tiles2, ant2, ticks2, writes2, pattern2>>

\* main.rs main, lines 30-31 (Pattern::parse(ant_app.pattern)?), and the
\* AntPattern::parse that builds the plugin's ant_pattern. The String is moved
\* into parse; rng is what thread_rng yields, one color per character.
Parse ==
    /\ pc = "start"
    /\ \E rng \in [1..Len(input) -> Markers] :
         LET r == IF config = "main"
                  THEN Pattern_parse(input, rng)
                  ELSE AntPattern_parse(input, rng)
         IN /\ pc' = IF r.ok THEN "parsed" ELSE "rejected"
            /\ pattern' = r.pattern
    /\ input' = <<>>
    /\ UNCHANGED <<config, appState, nextState, tiles, ant, ticks, writes, last,
                   tiles2, ant2, ticks2, writes2, pattern2>>

\* main.rs setup / hex.rs setup, run once by the Startup schedule: the ant is
\* spawned at the origin, Ant(Direction::North) or (AntDirection::Up,
\* PatternDirection::None).
setup ==
    /\ pc = "parsed"
    /\ pc' = "running"
    /\ ant' = IF config = "main"
              THEN [dir |-> "North", x |-> 0, y |-> 0]
              ELSE [dir |-> "Up", x |-> 0, y |-> 0, pd |-> "None"]
    /\ ant2' = [dir |-> "North", x |-> 0, y |-> 0]
    /\ UNCHANGED <<config, input, pattern, appState, nextState, tiles, ticks,
                   writes, last, tiles2, ticks2, writes2, pattern2>>

\* A schedule that always runs its systems, whatever the state.
in_any_state(state) == TRUE

\* Bevy's in_state(state) run condition, evaluated by the fixed loop after
\* the frame's StateTransition: the current state is `state` and no other
\* state is queued.
in_state(state) == appState = state /\ nextState = "None"

\* One run of the FixedUpdate schedule of main.rs:
\* run_rotation.run_if(in_state(AppState::Running)). A pending NextState is
\* applied (StateTransition) before the fixed loop of the next frame.
Tick ==
    /\ pc = "running" /\ config = "main"
    /\ in_state("Running")
    /\ ticks < MaxTicks
    /\ \E order \in Orders(Matching(tiles, ant)) :
         LET r == run_rotation(pattern, tiles, ant, order)
         IN IF r.panicked
            THEN /\ pc' = "panicked"
                 /\ UNCHANGED <<tiles, ant, ticks, writes, last>>
            ELSE /\ pc' = pc
                 /\ tiles' = r.tiles
                 /\ ant' = r.ant
                 /\ ticks' = ticks + 1
                 /\ writes' = writes \o r.writes
                 /\ last' = [branch |-> r.branch, from |-> ant, old |-> r.old,
                             color |-> r.writes[Len(r.writes)][3],
                             turn |-> r.turn, applied |-> r.turn,
                             n |-> Len(r.writes)]
    /\ UNCHANGED <<config, input, pattern, appState, nextState,
                   tiles2, ant2, ticks2, writes2, pattern2>>

\* One run of the FixedUpdate schedule of the plugin of hex.rs:
\* (ant_movement, bricks_rotation).chain().
HexTick ==
    /\ pc = "running" /\ config = "hex"
    /\ in_state("Running")
    /\ ticks < MaxTicks
    /\ LET m == ant_movement(ant)
       IN IF m.panicked
          THEN /\ pc' = "panicked"
               /\ UNCHANGED <<tiles, ant, ticks, writes, last>>
          ELSE \E order \in Orders(Matching(tiles, m.ant)) :
                 LET r == bricks_rotation(pattern, tiles, m.ant, order)
                 IN IF r.panicked
                    THEN /\ pc' = "panicked"
                         /\ UNCHANGED <<tiles, ant, ticks, writes, last>>
                    ELSE /\ pc' = pc
                         /\ tiles' = r.tiles
                         /\ ant' = r.ant
                         /\ ticks' = ticks + 1
                         /\ writes' = writes \o r.writes
                         /\ last' = [branch |-> r.branch, from |-> ant,
                                     old |-> r.old,
                                     color |-> r.writes[Len(r.writes)][3],
                                     turn |-> r.turn, applied |-> ant.pd,
                                     n |-> Len(r.writes)]
    /\ UNCHANGED <<config, input, pattern, appState, nextState,
                   tiles2, ant2, ticks2, writes2, pattern2>>

\* main.rs pause, in a frame where Space was just pressed: the other state is
\* queued in NextState.
pause ==
    /\ pc = "running" /\ config = "main"
    /\ nextState = "None"
    /\ nextState' = IF appState = "Paused" THEN "Running" ELSE "Paused"
    /\ UNCHANGED <<config, pc, input, pattern, appState, tiles, ant, ticks,
                   writes, last, tiles2, ant2, ticks2, writes2, pattern2>>

\* Bevy's StateTransition schedule (registered by init_state::<AppState>()):
\* the queued state becomes the current one.
StateTransition ==
    /\ pc = "running"
    /\ nextState # "None"
    /\ appState' = nextState
    /\ nextState' = "None"
    /\ UNCHANGED <<config, pc, input, pattern, tiles, ant, ticks, writes, last,
                   tiles2, ant2, ticks2, writes2, pattern2>>

Next == Parse \/ setup \/ Tick \/ HexTick \/ pause \/ StateTransition

Spec == Init /\ [][Next]_vars

\* The program of main.rs under its scheduling, Space never pressed: main runs
\* parse and then the application, whose Startup schedule runs setup once and
\* whose frames run, at the fixed rate, the FixedUpdate schedule. The patterns
\* are those shorter than MaxLen.
InitFair == Init /\ config = "main" /\ Len(input) < MaxLen

NextFair == Parse \/ setup \/ Tick

SpecFair ==
    /\ InitFair /\ [][NextFair]_vars
    /\ WF_vars(Parse) /\ WF_vars(setup) /\ WF_vars(Tick)

\* ---------------------------------------------------- two runs, one table
\* A tick of the second run of main.rs.
Tick2 ==
    /\ pc = "running" /\ config = "main"
    /\ ticks2 < MaxTicks
    /\ \E order \in Orders(Matching(tiles2, ant2)) :
         LET r == run_rotation(pattern, tiles2, ant2, order)
         IN IF r.panicked
            THEN /\ pc' = "panicked"
                 /\ UNCHANGED <<tiles2, ant2, ticks2, writes2>>
            ELSE /\ pc' = pc
                 /\ tiles2' = r.tiles
                 /\ ant2' = r.ant
                 /\ ticks2' = ticks2 + 1
                 /\ writes2' = writes2 \o r.writes
    /\ UNCHANGED <<config, input, pattern, appState, nextState,
                   tiles, ant, ticks, writes, last, pattern2>>

InitTwoRuns == Init /\ config = "main"

NextTwoRuns == Parse \/ setup \/ Tick \/ Tick2

SpecTwoRuns == InitTwoRuns /\ [][NextTwoRuns]_vars

\* ------------------------------------------- both engines, one pattern
\* The pattern given to both engines: characters of the two-command alphabet
\* (and one that neither engine knows).
InitBoth ==
    /\ Init /\ config = "main"
    /\ \A i \in 1..Len(input) : input[i] \in {"r", "l", "R", "L", "x"}

\* Pattern::parse of main.rs and AntPattern::parse of hex.rs on the same
\* string, thread_rng yielding the same colors to both.
ParseBoth ==
    /\ pc = "start"
    /\ \E rng \in [1..Len(input) -> Markers] :
         LET rm == Pattern_parse(input, rng)
             rh == AntPattern_parse(input, rng)
         IN /\ pc' = IF rm.ok /\ rh.ok THEN "parsed" ELSE "rejected"
            /\ pattern' = rm.pattern
            /\ pattern2' = rh.pattern
    /\ input' = <<>>
    /\ UNCHANGED <<config, appState, nextState, tiles, ant, ticks, writes, last,
                   tiles2, ant2, ticks2, writes2>>

\* setup of main.rs and setup of hex.rs: each spawns its ant at the origin.
setupBoth ==
    /\ pc = "parsed"
    /\ pc' = "running"
    /\ ant' = [dir |-> "North", x |-> 0, y |-> 0]
    /\ ant2' = [dir |-> "Up", x |-> 0, y |-> 0, pd |-> "None"]
    /\ UNCHANGED <<config, input, pattern, appState, nextState, tiles, ticks,
                   writes, last, tiles2, ticks2, writes2, pattern2>>

\* One run of the FixedUpdate schedule of the plugin of hex.rs,
\* (ant_movement, bricks_rotation).chain(), on the second engine's state.
HexTick2 ==
    /\ pc = "running"
    /\ in_state("Running")
    /\ ticks2 < MaxTicks
    /\ LET m == ant_movement(ant2)
       IN IF m.panicked
          THEN /\ pc' = "panicked"
               /\ UNCHANGED <<tiles2, ant2, ticks2, writes2>>
          ELSE \E order \in Orders(Matching(tiles2, m.ant)) :
                 LET r == bricks_rotation(pattern2, tiles2, m.ant, order)
                 IN IF r.panicked
                    THEN /\ pc' = "panicked"
                         /\ UNCHANGED <<tiles2, ant2, ticks2, writes2>>
                    ELSE /\ pc' = pc
                         /\ tiles2' = r.tiles
                         /\ ant2' = r.ant
                         /\ ticks2' = ticks2 + 1
                         /\ writes2' = writes2 \o r.writes
    /\ UNCHANGED <<config, input, pattern, appState, nextState,
                   tiles, ant, ticks, writes, last, pattern2>>

NextBoth == ParseBoth \/ setupBoth \/ Tick \/ HexTick2

SpecBoth == InitBoth /\ [][NextBoth]_vars

\* ------------------------------------------------------------------ claims
\* The tiles of ts at coordinate (x, y).
TileAt(ts, x, y) == {i \in 1..Len(ts) : ts[i].x = x /\ ts[i].y = y}

\* A tick of main.rs was executed in this step.
MainTicked == config = "main" /\ ticks' = ticks + 1

\* A tick of hex.rs was executed in this step.
HexTicked == config = "hex" /\ ticks' = ticks + 1

Abs(n) == IF n < 0 THEN -n ELSE n

\* C1: a tick of run_rotation paints the coordinate the ant starts the tick
\* on. No tile there: a tile with colors[1] (0-based) is created there and the
\* tick turns by turns[0]. A tile with marker m there: its marker becomes the
\* one next(m) returns and the tick turns by the turn next(m) returns. The
\* next branch is taken exactly when an earlier tick painted the coordinate.
C1_TickPaintsStart ==
    [][MainTicked =>
        LET here == TileAt(tiles, ant.x, ant.y)
            after == TileAt(tiles', ant.x, ant.y)
        IN /\ here = {} =>
                /\ Cardinality(after) = 1
                /\ \A i \in after : tiles'[i].color = pattern.colors[2]
                /\ ant'.dir = apply_turn(ant.dir, pattern.turns[1])
                /\ last'.branch = "first"
           /\ \A i \in here :
                LET r == Pattern_next(pattern, tiles[i].color)
                IN /\ after = here
                   /\ tiles'[i].color = r.color
                   /\ ant'.dir = apply_turn(ant.dir, r.turn)
                   /\ last'.branch = "next"
           /\ last'.branch = "next" <=>
                \E k \in 1..Len(writes) :
                    writes[k][1] = ant.x /\ writes[k][2] = ant.y]_vars

\* C1 witness: the ant is back on a painted coordinate and took the next
\* branch there.
C1_Witness ==
    /\ config = "main" /\ last.branch = "next"
    /\ \E i \in TileAt(tiles, last.from.x, last.from.y) :
         tiles[i].color = Pattern_next(pattern, last.old).color

\* C2: in a tick of main.rs the heading is rotated by the turn looked up in
\* that tick, then the position advances by one step along the new heading,
\* the other axis unchanged: one cell of Manhattan distance per tick.
C2_TurnThenMove ==
    [][MainTicked =>
        LET h == apply_turn(ant.dir, last'.turn)
        IN /\ ant'.dir = h
           /\ h = "North" => ant'.x = ant.x /\ ant'.y = ant.y + ANT_SPEED
           /\ h = "South" => ant'.x = ant.x /\ ant'.y = ant.y - ANT_SPEED
           /\ h = "West" => ant'.x = ant.x - ANT_SPEED /\ ant'.y = ant.y
           /\ h = "East" => ant'.x = ant.x + ANT_SPEED /\ ant'.y = ant.y
           /\ Abs(ant'.x - ant.x) + Abs(ant'.y - ant.y) = ANT_SPEED]_vars

\* C2 witness: a tick that turned left from South and so moved one step east.
C2_Witness ==
    /\ config = "main" /\ ticks >= 1
    /\ last.turn = "Left" /\ last.from.dir = "South" /\ ant.dir = "East"
    /\ ant.x = last.from.x + ANT_SPEED /\ ant.y = last.from.y

\* C3 (as claimed): whenever a tick calls next with the marker of entry i, it
\* gets the marker of entry (i+1) mod N and the turn of entry i, for every
\* index i carrying that marker.
C3_NextIsCyclicSuccessor ==
    last.branch = "next" =>
        \A i \in 1..Len(pattern.colors) :
            pattern.colors[i] = last.old =>
                /\ last.color = pattern.colors[(i % Len(pattern.colors)) + 1]
                /\ last.turn = pattern.turns[i]

\* The characters parse recognizes, in either case, and their commands.
Alphabet ==
    IF config = "main" THEN {"r", "R", "l", "L"}
    ELSE {"r", "R", "l", "L", "u", "U", "n", "N"}

CommandOf(c) ==
    IF config = "main"
    THEN (IF c \in {"r", "R"} THEN "Right" ELSE "Left")
    ELSE CASE c \in {"r", "R"} -> "R1"
           [] c \in {"l", "L"} -> "L1"
           [] c \in {"u", "U"} -> "Uturn"
           [] OTHER -> "None"

\* The positions of the input that hold a recognized character.
Recognized == {i \in 1..Len(input) : input[i] \in Alphabet}

\* The position of the j-th recognized character.
NthRecognized(j) ==
    CHOOSE i \in Recognized : Cardinality({m \in Recognized : m <= i}) = j

\* C4: with k the number of characters of the input in the configuration's
\* alphabet (case-insensitively), parse succeeds iff k >= 2 and fails
\* otherwise; on success colors and turns both have length k and the i-th turn
\* is the command of the i-th recognized character.
C4_ParseCountsRecognized ==
    [][(pc = "start" /\ pc' # "start") =>
        LET k == Cardinality(Recognized)
        IN /\ pc' = "parsed" <=> k >= 2
           /\ pc' = "rejected" <=> k < 2
           /\ k >= 2 =>
                /\ Len(pattern'.colors) = k
                /\ Len(pattern'.turns) = k
                /\ \A j \in 1..k :
                     pattern'.turns[j] = CommandOf(input[NthRecognized(j)])]_vars

\* C4 witness: a successful parse of the four-command alphabet.
C4_Witness ==
    /\ pc = "parsed" /\ config = "hex"
    /\ pattern.turns = <<"Uturn", "None">>
    /\ Len(pattern.colors) = 2

\* C5: every marker in the grid is the marker of some table entry, and the
\* lookup failure of next is never reached.
C5_GridMarkersFromTable ==
    /\ pc # "panicked"
    /\ \A i \in 1..Len(tiles) :
         \E j \in 1..Len(pattern.colors) : tiles[i].color = pattern.colors[j]

\* C5 witness: next was called with the marker of the last entry (the
\* wraparound window) and the run goes on.
C5_Witness ==
    /\ config = "main" /\ pc = "running" /\ last.branch = "next"
    /\ last.old = pattern.colors[Len(pattern.colors)]
    /\ last.old # pattern.colors[1]

\* C6: first returns the marker at index 1 with the turn at index 0
\* (0-based), whatever the table; a tick taking the first branch writes that
\* marker and looks up that turn.
C6_FirstIsIndex1 ==
    /\ pc \in {"parsed", "running"} =>
         LET f == Pattern_first(pattern)
         IN f.color = pattern.colors[2] /\ f.turn = pattern.turns[1]
    /\ last.branch = "first" =>
         /\ last.color = pattern.colors[2]
         /\ last.turn = pattern.turns[1]

\* C6 witness: a first-branch tick on a table whose first two markers differ
\* wrote the second one.
C6_Witness ==
    /\ last.branch = "first" /\ Len(pattern.colors) = 3
    /\ pattern.colors[1] # pattern.colors[2]
    /\ last.color = pattern.colors[2]
    /\ \E i \in 1..Len(tiles) : tiles[i].color = pattern.colors[2]

\* C7: two runs of main.rs on the same table from the same initial state
\* agree after the same number of ticks, in grid, ant and sequence of writes,
\* whatever order the tile query yields the tiles in; the shorter run's writes
\* are a prefix of the longer one's.
C7_Determinism ==
    /\ ticks = ticks2 =>
         /\ tiles = tiles2
         /\ ant = ant2
         /\ writes = writes2
    /\ ticks <= ticks2 =>
         /\ Len(writes) <= Len(writes2)
         /\ writes = SubSeq(writes2, 1, Len(writes))

\* C7 witness: both runs have revisited a painted coordinate after the same
\* number of ticks.
C7_Witness ==
    /\ ticks = ticks2 /\ ticks >= 5
    /\ last.branch = "next"
    /\ Len(writes2) > Len(tiles2)

\* C8: no step removes a coordinate from the grid: every coordinate holding a
\* tile before the step holds one after it, and the number of tiles never
\* decreases.
C8_GridMonotone ==
    [][/\ Len(tiles') >= Len(tiles)
       /\ \A i \in 1..Len(tiles) :
            TileAt(tiles', tiles[i].x, tiles[i].y) # {}]_vars

\* C8 witness: a brick of hex.rs was recolored on a revisit and every painted
\* coordinate is still there.
C8_Witness ==
    /\ config = "hex" /\ last.branch = "next"
    /\ Len(writes) > Len(tiles)
    /\ \A k \in 1..Len(writes) : TileAt(tiles, writes[k][1], writes[k][2]) # {}

\* The transition table of section 4.2.
HeadingTable(cmd, h) ==
    CASE cmd = "TurnLeft" ->
            (CASE h = "North" -> "West" [] h = "West" -> "South"
               [] h = "South" -> "East" [] h = "East" -> "North")
      [] cmd = "TurnRight" ->
            (CASE h = "North" -> "East" [] h = "East" -> "South"
               [] h = "South" -> "West" [] h = "West" -> "North")
      [] cmd = "UTurn" ->
            (CASE h = "North" -> "South" [] h = "South" -> "North"
               [] h = "West" -> "East" [] h = "East" -> "West")
      [] cmd = "NoTurn" -> h

\* Up/Down/Left/Right read as North/South/West/East.
Compass(d) ==
    CASE d = "Up" -> "North" [] d = "Down" -> "South"
      [] d = "Left" -> "West" [] d = "Right" -> "East"

\* The turn command a Turn / PatternDirection value stands for.
Command(t) ==
    CASE t \in {"Left", "L1"} -> "TurnLeft"
      [] t \in {"Right", "R1"} -> "TurnRight"
      [] t = "Uturn" -> "UTurn"
      [] t = "None" -> "NoTurn"

\* C9: the rotations of both engines are the transition table: as functions
\* on the four headings, and in every tick (main.rs rotates by the turn it
\* looked up, hex.rs by the pending command).
C9_HeadingTable ==
    /\ [](\A h \in {"North", "South", "West", "East"} :
            /\ turn_left(h) = HeadingTable("TurnLeft", h)
            /\ turn_right(h) = HeadingTable("TurnRight", h))
    /\ [](\A d \in {"Up", "Down", "Left", "Right"} :
            /\ Compass(rotate_left(d)) = HeadingTable("TurnLeft", Compass(d))
            /\ Compass(rotate_right(d)) = HeadingTable("TurnRight", Compass(d))
            /\ Compass(rotate_back(d)) = HeadingTable("UTurn", Compass(d)))
    /\ [][MainTicked =>
            ant'.dir = HeadingTable(Command(last'.turn), ant.dir)]_vars
    /\ [][HexTicked =>
            Compass(ant'.dir) = HeadingTable(Command(ant.pd), Compass(ant.dir))]_vars

\* C9 witness: hex.rs applied a left turn to an ant heading Down.
C9_Witness ==
    /\ config = "hex" /\ last.applied = "L1"
    /\ last.from.dir = "Down" /\ ant.dir = "Right"

\* C10: on the heading the ant has: a U-turn twice, a left turn then a right
\* turn and a right turn then a left turn all give the heading back, and the
\* no-turn command leaves it (once or twice).
C10_HeadingAlgebra ==
    /\ (pc = "running" /\ config = "main") =>
         /\ turn_right(turn_left(ant.dir)) = ant.dir
         /\ turn_left(turn_right(ant.dir)) = ant.dir
    /\ (pc = "running" /\ config = "hex") =>
         LET none1 == [ant_movement([ant EXCEPT !.pd = "None"]).ant
                            EXCEPT !.pd = "None"]
             none2 == ant_movement(none1).ant
         IN /\ rotate_back(rotate_back(ant.dir)) = ant.dir
            /\ rotate_right(rotate_left(ant.dir)) = ant.dir
            /\ rotate_left(rotate_right(ant.dir)) = ant.dir
            /\ none1.dir = ant.dir
            /\ none2.dir = ant.dir

\* C10 witness: a U-turn has just turned an ant heading Right, the heading on
\* which the algebra is then checked.
C10_Witness ==
    /\ config = "hex" /\ pc = "running"
    /\ last.applied = "Uturn" /\ last.from.dir = "Right" /\ ant.dir = "Left"

\* C11: when parse fails (fewer than two entries came out of it) the program
\* is rejected for good: no tick is ever executed, no tile and no ant is ever
\* created.
C11_RejectedNeverStarts ==
    (pc = "rejected" \/ (pc # "start" /\ Len(pattern.colors) < 2)) =>
        /\ pc = "rejected"
        /\ ant = NoAnt
        /\ tiles = <<>>
        /\ ticks = 0
        /\ writes = <<>>
        /\ ~ENABLED Next

\* C11 witness: parse has consumed the input and rejected it.
C11_Witness ==
    /\ pc = "rejected" /\ config = "main"
    /\ input = <<>> /\ pattern = EmptyPattern

\* C12 (as claimed): every tick of hex.rs paints the coordinate the ant
\* occupied at the start of the tick and rotates the heading by the turn
\* looked up in that same tick before moving; tick 1 paints the origin with
\* the marker of first and, for a pattern starting with R, leaves the ant
\* heading East (Right) one step east of the origin.
C12_HexTickContract ==
    [][HexTicked =>
        /\ TileAt(tiles', ant.x, ant.y) # {}
        /\ writes'[Len(writes')][1] = ant.x
        /\ writes'[Len(writes')][2] = ant.y
        /\ Compass(ant'.dir) =
              HeadingTable(Command(last'.turn), Compass(ant.dir))
        /\ (ticks = 0 /\ pattern.turns[1] = "R1") =>
              /\ \E i \in TileAt(tiles', 0, 0) :
                    tiles'[i].color = Pattern_first(pattern).color
              /\ ant'.dir = "Right"
              /\ ant'.x = ANT_SPEED /\ ant'.y = 0]_vars

\* The smallest index of table p carrying marker m.
FirstIndex(p, m) ==
    CHOOSE j \in 1..Len(p.colors) :
        p.colors[j] = m /\ \A k \in 1..(j - 1) : p.colors[k] # m

\* C13: next is a first-match scan. For every marker m of the table, distinct
\* or not, next(m) returns the marker after entry j and the turn of entry j,
\* j being the smallest index carrying m; so does every lookup a tick makes.
C13_NextIsFirstMatch ==
    /\ pc \in {"parsed", "running"} =>
         \A i \in 1..Len(pattern.colors) :
            LET j == FirstIndex(pattern, pattern.colors[i])
                r == Pattern_next(pattern, pattern.colors[i])
            IN /\ r.found
               /\ r.color = pattern.colors[(j % Len(pattern.colors)) + 1]
               /\ r.turn = pattern.turns[j]
    /\ last.branch = "next" =>
         LET j == FirstIndex(pattern, last.old)
         IN /\ last.color = pattern.colors[(j % Len(pattern.colors)) + 1]
            /\ last.turn = pattern.turns[j]

\* C13 witness: a tick looked up a marker carried by two entries with
\* different turns and got the turn of the earlier one.
C13_Witness ==
    /\ last.branch = "next"
    /\ \E j, k \in 1..Len(pattern.colors) :
         /\ j < k
         /\ pattern.colors[j] = last.old /\ pattern.colors[k] = last.old
         /\ pattern.turns[j] # pattern.turns[k]
         /\ \A h \in 1..(j - 1) : pattern.colors[h] # last.old
         /\ last.turn = pattern.turns[j]

\* C14: a tick of main.rs writes exactly one marker, on the coordinate the ant
\* starts the tick on, and moves the ant exactly once; every tile on another
\* coordinate keeps its marker and its place, a new tile appears only on the
\* start coordinate, and the pattern table is left as parse built it, by
\* ticks and by every other step.
C14_TickFrame ==
    /\ [][MainTicked =>
            /\ Len(writes') = Len(writes) + 1
            /\ writes'[Len(writes')][1] = ant.x
            /\ writes'[Len(writes')][2] = ant.y
            /\ Len(tiles') \in {Len(tiles), Len(tiles) + 1}
            /\ \A i \in 1..Len(tiles) :
                 /\ tiles'[i].x = tiles[i].x /\ tiles'[i].y = tiles[i].y
                 /\ (tiles[i].x # ant.x \/ tiles[i].y # ant.y) =>
                        tiles'[i].color = tiles[i].color
            /\ \A i \in (Len(tiles) + 1)..Len(tiles') :
                 tiles'[i].x = ant.x /\ tiles'[i].y = ant.y
            /\ Abs(ant'.x - ant.x) + Abs(ant'.y - ant.y) = ANT_SPEED
            /\ pattern' = pattern]_vars
    /\ [][pc # "start" => pattern' = pattern]_vars

\* C14 witness: a tick recolored the tile under the ant while three other
\* tiles were on the grid.
C14_Witness ==
    /\ config = "main" /\ last.branch = "next" /\ last.n = 1
    /\ Len(tiles) >= 4
    /\ Cardinality(TileAt(tiles, last.from.x, last.from.y)) = 1

\* The state a Space press switches to.
Other(state) == IF state = "Paused" THEN "Running" ELSE "Paused"

\* C15: the application starts in Running; a Space press queues the other
\* state and the state only ever changes to the queued, other state; a tick
\* is executed only in Running; while Paused the grid, the heading and the
\* position stay as they are; and no step shows half a tick (a write without
\* the move, or a move without the write).
C15_PauseGate ==
    /\ [](pc \in {"start", "parsed"} =>
            appState = "Running" /\ nextState = "None")
    /\ [][(nextState = "None" /\ nextState' # "None") =>
            nextState' = Other(appState) /\ appState' = appState]_vars
    /\ [][appState' # appState =>
            /\ appState' = Other(appState)
            /\ nextState = appState' /\ nextState' = "None"]_vars
    /\ [][ticks' # ticks => appState = "Running" /\ appState' = "Running"]_vars
    /\ [][appState = "Paused" =>
            /\ tiles' = tiles /\ ant' = ant
            /\ ticks' = ticks /\ writes' = writes]_vars
    /\ [][pc = "running" =>
            /\ writes' # writes <=> ant' # ant
            /\ tiles' # tiles => ant' # ant
            /\ ant' # ant => ticks' = ticks + 1]_vars

\* C15 witness: the application was paused after five ticks or more.
C15_Witness ==
    /\ config = "main" /\ pc = "running"
    /\ appState = "Paused" /\ nextState = "None"
    /\ ticks >= 5 /\ Len(tiles) >= 4

\* C16: no terminal state. With the scheduler fair and the application left
\* in state Running, the run never reaches the panic state; whenever it is
\* running below the explored number of ticks, a tick is enabled and leaves
\* it running with one more tick executed; and every run of an accepted
\* pattern reaches every explored tick count.
C16_NoTerminalState ==
    /\ [](pc # "panicked" /\ appState = "Running" /\ nextState = "None")
    /\ []((pc = "running" /\ ticks < MaxTicks) =>
             ENABLED (Tick /\ pc' = "running" /\ ticks' = ticks + 1))
    /\ <>(pc = "rejected" \/ ticks = MaxTicks)

\* C16 witness: a run that has executed every explored tick and is still
\* running.
C16_Witness ==
    /\ pc = "running" /\ ticks = MaxTicks
    /\ appState = "Running" /\ nextState = "None"
    /\ Len(writes) = MaxTicks

\* The number of writes made so far at coordinate (x, y): the visits of the
\* ant to it, a tick writing once at the coordinate it starts on.
VisitsIn(w, x, y) ==
    Cardinality({i \in 1..Len(w) : w[i][1] = x /\ w[i][2] = y})

Visits(x, y) == VisitsIn(writes, x, y)

\* The colors of table p are pairwise distinct.
Distinct(p) ==
    \A i, j \in 1..Len(p.colors) : i # j => p.colors[i] # p.colors[j]

\* C17: per-cell cycle. When the N colors of the table are pairwise distinct,
\* the tick of main.rs that makes the k-th visit to a coordinate applies the
\* turn of entry (k-1) mod N and leaves the color of entry k mod N on the
\* coordinate (entries counted from 0); so the color of entry 0 is on a
\* coordinate after a visit only when N divides the number of visits.
C17_PerCellCycle ==
    [][(MainTicked /\ Distinct(pattern)) =>
          LET N == Len(pattern.colors)
              k == Visits(ant.x, ant.y) + 1
          IN /\ last'.turn = pattern.turns[((k - 1) % N) + 1]
             /\ last'.color = pattern.colors[(k % N) + 1]
             /\ \A i \in TileAt(tiles', ant.x, ant.y) :
                    /\ tiles'[i].color = pattern.colors[(k % N) + 1]
                    /\ (tiles'[i].color = pattern.colors[1]) <=> (k % N = 0)
             /\ VisitsIn(writes', ant.x, ant.y) = k]_vars

\* C17 witness: with three distinct colors, a third visit has wrapped around
\* and left the color of entry 0 on the coordinate.
C17_Witness ==
    /\ config = "main" /\ pc = "running"
    /\ Len(pattern.colors) = 3 /\ Distinct(pattern)
    /\ last.branch = "next"
    /\ Visits(last.from.x, last.from.y) = 3
    /\ last.color = pattern.colors[1]

\* C18: unique tile per coordinate. In both configurations no two tiles share
\* a coordinate and the tick last executed made one write (one call of next,
\* or the spawn); a tick adds at most one tile, and only at a coordinate
\* where no tile was.
C18_UniqueTilePerCoordinate ==
    /\ [](\A i, j \in 1..Len(tiles) :
             (tiles[i].x = tiles[j].x /\ tiles[i].y = tiles[j].y) => i = j)
    /\ []((ticks >= 1 => last.n = 1) /\ Len(writes) = ticks)
    /\ [][/\ Len(tiles') <= Len(tiles) + 1
          /\ (Len(tiles') = Len(tiles) + 1) =>
                /\ TileAt(tiles, tiles'[Len(tiles')].x, tiles'[Len(tiles')].y) = {}
                /\ last'.branch = "first"
          /\ (ticks' = ticks + 1 /\ last'.branch = "next") =>
                /\ Len(tiles') = Len(tiles)
                /\ Cardinality({i \in 1..Len(tiles) : tiles'[i] # tiles[i]}) <= 1]_vars

\* C18 witness: a tick of hex.rs on a coordinate that already had its tile,
\* with several tiles on the grid.
C18_Witness ==
    /\ config = "hex" /\ pc = "running"
    /\ last.branch = "next" /\ last.n = 1
    /\ Len(tiles) >= 4 /\ Len(tiles) < ticks

\* The grid ts as a set of tiles, and the same grid one step further north.
GridSet(ts) == {ts[i] : i \in 1..Len(ts)}

Shifted(ts) ==
    {[x |-> t.x, y |-> t.y + ANT_SPEED, color |-> t.color] : t \in GridSet(ts)}

\* The tiles of set g off coordinate (x, y).
Off(g, x, y) == {t \in g : ~(t.x = x /\ t.y = y)}

\* C19: relation between the two engines, run on the same {R, L} pattern
\* with the same colors. With hex.rs one tick ahead of main.rs, the hex ant
\* stands one step north of the main ant with the same heading, its grid is
\* the main grid shifted one step north except at the hex ant's coordinate,
\* where the hex grid has a tile. With both at the same tick count (one or
\* more), the hex grid is the shifted main grid and the hex ant's heading
\* rotated by its pending command is the main ant's heading. After the first
\* hex tick the origin has no tile.
C19_EnginesCorrespond ==
    pc = "running" =>
      /\ ticks2 = ticks + 1 =>
            /\ ant2.x = ant.x /\ ant2.y = ant.y + ANT_SPEED
            /\ Compass(ant2.dir) = ant.dir
            /\ Off(GridSet(tiles2), ant2.x, ant2.y)
                  = Off(Shifted(tiles), ant2.x, ant2.y)
            /\ Cardinality(TileAt(tiles2, ant2.x, ant2.y)) = 1
            /\ Len(tiles2) >= Len(tiles)
      /\ (ticks2 = ticks /\ ticks >= 1) =>
            /\ GridSet(tiles2) = Shifted(tiles)
            /\ HeadingTable(Command(ant2.pd), Compass(ant2.dir)) = ant.dir
      /\ ticks2 = 1 =>
            /\ TileAt(tiles2, 0, 0) = {}
            /\ TileAt(tiles2, 0, ANT_SPEED) # {}

\* C19 witness: the hex engine one tick ahead, having just repainted a
\* coordinate that the shifted main grid holds with the previous color.
C19_Witness ==
    /\ pc = "running" /\ ticks2 = ticks + 1 /\ ticks >= 4
    /\ Len(tiles2) = Len(tiles) /\ Len(tiles) >= 4
    /\ GridSet(tiles2) # Shifted(tiles)
    /\ ant2.pd = "L1" /\ ant.dir # "North"

\* The variants of PatternDirection that ant_movement has an arm for.
Handled == {"R1", "L1", "Uturn", "None"}

\* C20: unreachable todo. In the configuration of hex.rs every turn of the
\* parsed table and the pending command of the spawned ant are among R1, L1,
\* Uturn and None, the next ant_movement does not reach todo!(), and no tick
\* has ended in a panic.
C20_TodoUnreachable ==
    config = "hex" =>
      /\ \A i \in 1..Len(pattern.turns) : pattern.turns[i] \in Handled
      /\ pc = "running" => (ant.pd \in Handled /\ ~ant_movement(ant).panicked)
      /\ ticks >= 1 => last.applied \in Handled
      /\ pc # "panicked"

\* C20 witness: a run of hex.rs whose last tick moved with a pending Uturn
\* and stored R1 for the next one.
C20_Witness ==
    /\ config = "hex" /\ pc = "running" /\ ticks >= 3
    /\ last.applied = "Uturn" /\ ant.pd = "R1"
    /\ \E i \in 1..Len(pattern.turns) : pattern.turns[i] = "None"

=============================================================================
